---- MODULE Spec2Model ----
(***************************************************************************)
(* Model of the VPP resource dashboard shell (src/App.tsx): the customer   *)
(* set, the aggregation effect that derives regionStats and chartData,     *)
(* fetchCustomers with its mock fallback, handleNewRegistration with its   *)
(* local fallback, and the maskPhone display helper.                       *)
(*                                                                         *)
(* Conventions.                                                            *)
(*  - A JavaScript string is a sequence of one-character tokens.  The      *)
(*    Chinese characters of the source are written as their pinyin:        *)
(*    "guang","fu" is the solar marker, "chu","neng" the storage marker,   *)
(*    "chong","dian" the EV-charging marker, "qi","ta" the word 'other'.   *)
(*  - A JavaScript value that may or may not be a number is a record       *)
(*    [k, n]: k = "num" (the number n), "nan", "undef", "null",            *)
(*    "numstr" (a numeric string whose value is n), "str" (a non-numeric   *)
(*    string), "empty" (the empty string).                                 *)
(*  - A JavaScript number is an IEEE-754 binary floating-point value.  The *)
(*    model keeps the rounding of every addition (round to nearest, ties   *)
(*    to even) and scales the significand from 53 bits down to MantBits    *)
(*    bits: a finite number is a natural number of units, and only         *)
(*    naturals with at most MantBits significant bits are representable.   *)
(***************************************************************************)
EXTENDS Naturals, Sequences, FiniteSets

VARIABLES
  isModalOpen,    \* App.tsx:24  useState(false)
  loading,        \* App.tsx:25  useState(true)
  customers,      \* App.tsx:28  useState<Customer[]>([])
  regionStats,    \* App.tsx:31  derived by the aggregation effect
  chartData,      \* App.tsx:32  derived by the aggregation effect
  mounted,        \* whether the mount effect (App.tsx:98-100) has run
  listInFlight,   \* number of list() calls awaiting their result
  insertInFlight, \* the insert() calls awaiting their result, with payloads
  listCalls,      \* number of list() calls issued so far
  insertCalls,    \* number of insert() calls issued so far
  submits,        \* number of registration submissions so far
  insertOks,      \* number of insert() calls that completed successfully
  nextId,         \* source of the identifiers Math.random() generates
  lastEvent,      \* the handler that ran last, with its inputs
  prevCustomers,  \* customers before the handler that ran last
  prevListCalls,  \* listCalls before the handler that ran last
  phone,          \* the phone text of the row being rendered
  maskedPhone     \* what the phone column shows for it

vars == <<isModalOpen, loading, customers, regionStats, chartData, mounted,
          listInFlight, insertInFlight, listCalls, insertCalls, submits,
          insertOks, nextId, lastEvent, prevCustomers, prevListCalls,
          phone, maskedPhone>>

appVars == <<isModalOpen, loading, mounted, listInFlight, insertInFlight,
             listCalls, insertCalls, submits, insertOks, nextId,
             prevListCalls>>

phoneVars == <<phone, maskedPhone>>

\* ------------------------------------------------------------- bounds

\* Significand width of the scaled-down floating-point numbers.
MantBits == 3

\* Longest customer sequence fed to the aggregation effect on its own.
MaxLen == 3

\* Registration submissions in one session.
MaxSubmits == 2

\* Longest phone text rendered.
MaxPhoneLen == 14

\* ------------------------------------------------- JavaScript numbers

RECURSIVE Pow2(_)
Pow2(k) == IF k = 0 THEN 1 ELSE 2 * Pow2(k - 1)

RECURSIVE ExpOf(_, _)
\* The least e with n < 2^(MantBits + e).
ExpOf(n, e) == IF n < Pow2(MantBits + e) THEN e ELSE ExpOf(n, e + 1)

\* The representable number nearest to the real number n, ties to even.
FlRound(n) ==
  LET step == Pow2(ExpOf(n, 0))
      q    == n \div step
      r    == n % step
  IN  IF 2 * r < step THEN q * step
      ELSE IF 2 * r > step THEN (q + 1) * step
      ELSE IF q % 2 = 0 THEN q * step
      ELSE (q + 1) * step

\* a + b of two finite non-negative numbers.
Fadd(a, b) == FlRound(a + b)

Num(n) == [k |-> "num", n |-> n]
NaN == [k |-> "nan", n |-> 0]
Undef == [k |-> "undef", n |-> 0]
Null == [k |-> "null", n |-> 0]
NumStr(n) == [k |-> "numstr", n |-> n]
BadStr == [k |-> "str", n |-> 0]
EmptyStr == [k |-> "empty", n |-> 0]

\* Number(v)
ToNumber(v) ==
  CASE v.k = "num" -> v
    [] v.k = "numstr" -> Num(v.n)
    [] v.k = "null" -> Num(0)
    [] v.k = "empty" -> Num(0)
    [] OTHER -> NaN

\* Variant of Coerce: the fallback of a failed coercion is 1, not 0.
CoerceOrOne(v) ==
  LET x == ToNumber(v) IN IF x.k = "nan" THEN 1 ELSE x.n

\* Number(v) || 0 : NaN and 0 are falsy.
Coerce(v) ==
  LET x == ToNumber(v) IN IF x.k = "nan" \/ x.n = 0 THEN 0 ELSE x.n

\* parseFloat(text) || 0 of a form field.
ParseFloatOrZero(text) ==
  IF text.k = "numstr" /\ text.n # 0 THEN text.n ELSE 0

\* ------------------------------------------------- JavaScript strings

\* s.includes(sub)
Includes(s, sub) ==
  \E i \in 0..(Len(s) - Len(sub)) : SubSeq(s, i + 1, i + Len(sub)) = sub

Str(s) == [k |-> "str", s |-> s]
NoStr == [k |-> "null", s |-> <<>>]

\* v || '' of a string that may be missing.
OrEmpty(v) == IF v.k = "str" /\ v.s # <<>> THEN v.s ELSE <<>>

SOLAR == <<"guang", "fu">>
STORAGE == <<"chu", "neng">>
EVCHARGE == <<"chong", "dian">>
OTHER_TYPE == <<"qi", "ta">>

\* ------------------------------------------------ aggregation effect

ZeroEntry(city) ==
  [city |-> city, site_count |-> 0, pv_mw |-> 0, storage_mw |-> 0,
   ev_mw |-> 0, other_mw |-> 0, total_mw |-> 0]

\* Variant of Classify: the storage marker is tested before the solar one.
ClassifyStorageFirst(type) ==
  IF Includes(type, STORAGE) THEN "storage"
  ELSE IF Includes(type, SOLAR) THEN "pv"
  ELSE IF Includes(type, EVCHARGE) THEN "ev"
  ELSE "other"

\* The if / else-if chain of the forEach body.
Classify(type) ==
  IF Includes(type, SOLAR) THEN "pv"
  ELSE IF Includes(type, STORAGE) THEN "storage"
  ELSE IF Includes(type, EVCHARGE) THEN "ev"
  ELSE "other"

\* entry after one customer of its city has been counted.
AddToEntry(entry, cust) ==
  LET cap  == Coerce(cust.capacity_mw)
      type == OrEmpty(cust.demand_type)
      cls  == Classify(type)
  IN  [entry EXCEPT
         !.site_count = @ + 1,
         !.total_mw   = Fadd(@, cap),
         !.pv_mw      = IF cls = "pv" THEN Fadd(@, cap) ELSE @,
         !.storage_mw = IF cls = "storage" THEN Fadd(@, cap) ELSE @,
         !.ev_mw      = IF cls = "ev" THEN Fadd(@, cap) ELSE @,
         !.other_mw   = IF cls = "other" THEN Fadd(@, cap) ELSE @]

HasCity(map, city) == \E i \in 1..Len(map) : map[i].city = city

\* Variant of ForEachBody: no cityMap.has test, a fresh entry per customer.
ForEachBodyNoHas(map, cust) ==
  LET m == Append(map, ZeroEntry(cust.city))
  IN  [i \in 1..Len(m) |->
         IF i = Len(m) THEN AddToEntry(m[i], cust) ELSE m[i]]

\* One iteration of customers.forEach: cityMap is a Map, modelled as the
\* sequence of its entries in insertion order.
ForEachBody(map, cust) ==
  LET m == IF HasCity(map, cust.city) THEN map
           ELSE Append(map, ZeroEntry(cust.city))
  IN  [i \in 1..Len(m) |->
         IF m[i].city = cust.city THEN AddToEntry(m[i], cust) ELSE m[i]]

RECURSIVE CityMapOf(_)
CityMapOf(custs) ==
  IF custs = <<>> THEN <<>>
  ELSE ForEachBody(CityMapOf(SubSeq(custs, 1, Len(custs) - 1)),
                   custs[Len(custs)])

\* pv + storage + ev + other, added left to right.
CategorySum(pv, storage, ev, other) ==
  Fadd(Fadd(Fadd(pv, storage), ev), other)

RegionKey(r) == r.total_mw
ChartKey(c) == CategorySum(c.pv, c.storage, c.ev, c.other)

\* x put into the sorted sequence s after every element whose key is at
\* least kx, keys being the keys of s (Array.prototype.sort is stable).
InsertSorted(s, keys, x, kx) ==
  LET p == Cardinality({i \in 1..Len(s) : keys[i] >= kx})
  IN  SubSeq(s, 1, p) \o <<x>> \o SubSeq(s, p + 1, Len(s))

\* Variant of SortRegions: the comparator is a.total_mw - b.total_mw.
RECURSIVE SortRegionsAsc(_)
SortRegionsAsc(arr) ==
  IF arr = <<>> THEN <<>>
  ELSE LET rest == SortRegionsAsc(SubSeq(arr, 1, Len(arr) - 1))
           x    == arr[Len(arr)]
           p    == Cardinality({i \in 1..Len(rest) :
                                  RegionKey(rest[i]) <= RegionKey(x)})
       IN  SubSeq(rest, 1, p) \o <<x>> \o SubSeq(rest, p + 1, Len(rest))

RECURSIVE SortRegions(_)
\* arr.sort((a, b) => b.total_mw - a.total_mw)
SortRegions(arr) ==
  IF arr = <<>> THEN <<>>
  ELSE LET rest == SortRegions(SubSeq(arr, 1, Len(arr) - 1))
           x    == arr[Len(arr)]
       IN  InsertSorted(rest, [i \in 1..Len(rest) |-> RegionKey(rest[i])],
                        x, RegionKey(x))

RECURSIVE SortChart(_)
\* arr.sort((a, b) => (b.pv + b.storage + b.ev + b.other)
\*                   - (a.pv + a.storage + a.ev + a.other))
SortChart(arr) ==
  IF arr = <<>> THEN <<>>
  ELSE LET rest == SortChart(SubSeq(arr, 1, Len(arr) - 1))
           x    == arr[Len(arr)]
       IN  InsertSorted(rest, [i \in 1..Len(rest) |-> ChartKey(rest[i])],
                        x, ChartKey(x))

ToChartPoint(e) ==
  [name |-> e.city, pv |-> e.pv_mw, storage |-> e.storage_mw,
   ev |-> e.ev_mw, other |-> e.other_mw]

\* Variant of newRegionStats: sorted ascending.
newRegionStatsAscending(custs) == SortRegionsAsc(CityMapOf(custs))

\* Array.from(cityMap.entries()).map(...).sort(...)
newRegionStats(custs) == SortRegions(CityMapOf(custs))

newChartData(custs) ==
  LET m == CityMapOf(custs)
  IN  SortChart([i \in 1..Len(m) |-> ToChartPoint(m[i])])

\* The aggregation useEffect, run on every change of customers.
Aggregate(custs) ==
  IF Len(custs) = 0
  THEN [regionStats |-> <<>>, chartData |-> <<>>]
  ELSE [regionStats |-> newRegionStats(custs),
        chartData |-> newChartData(custs)]

\* ------------------------------------------------------ customer data

\* A Customer (types.ts shape as used by App.tsx:115-125 and 179-189).
Customer(id, company, city, cap, type, ph) ==
  [id |-> id, company_name |-> company, province |-> "P", city |-> city,
   capacity_mw |-> cap, demand_type |-> type, industry |-> <<>>,
   contact |-> <<>>, phone |-> ph]

T_OTHER == OTHER_TYPE \o <<"-", "x">>
\* "guang fu - chu neng shi dian3": both the solar and the storage marker.
T_BOTH == SOLAR \o <<"-">> \o STORAGE \o <<"shi", "dian3">>
\* The storage marker first, the solar marker after it.
T_BOTH_REV == STORAGE \o <<"-">> \o SOLAR
\* The storage and the EV-charging marker, no solar marker.
T_STORAGE_EV == STORAGE \o EVCHARGE
\* The two characters of the solar marker, not adjacent.
T_SPLIT == <<"guang", "-", "fu">>

AggCities == {"A", "B", "C"}
AggCaps == {3, 6}

\* The customers the aggregation effect is fed with on its own.
AggCustomers ==
  {Customer(<<"agg", 0>>, "co", c, Num(n), Str(t), <<>>) :
     c \in AggCities, n \in AggCaps, t \in {SOLAR, STORAGE}}
  \cup {Customer(<<"agg", 0>>, "co", "A", Num(3), t, <<>>) :
     t \in {Str(EVCHARGE), Str(T_OTHER), Str(<<>>), NoStr, Str(T_BOTH),
            Str(T_BOTH_REV), Str(T_STORAGE_EV), Str(T_SPLIT)}}
  \cup {Customer(<<"agg", 0>>, "co", "B", v, Str(SOLAR), <<>>) :
     v \in {NaN, Undef, BadStr}}

\* --------------------------------------------- remote store and form

\* A record of the remote collection, as list() returns it.
Row(id, city, cap, type, industry, ph) ==
  [id |-> id, company_name |-> "co", province |-> "P", city |-> city,
   capacity_mw |-> cap, demand_type |-> type, industry |-> industry,
   contact_name |-> NoStr, contact_phone |-> ph]

\* The non-empty results list() may return: what the remote collection
\* holds is the remote store's business.
RemoteResults ==
  { << Row(<<"db", 1>>, "A", Num(6), Str(SOLAR), Str(<<"i">>), NoStr),
       Row(<<"db", 2>>, "A", Num(6), Str(STORAGE), NoStr, Str(<<"1">>)) >>,
    << Row(<<"db", 3>>, "B", Undef, NoStr, NoStr, NoStr),
       Row(<<"db", 4>>, "B", NumStr(3), Str(T_BOTH), NoStr, NoStr) >> }

\* How a list() call may end.
ListOutcomes == {"error", "throw", "null", "empty", "rows"}

\* How an insert() call may end.
InsertOutcomes == {"ok", "error", "throw"}

\* The fixed fallback dataset of constants.ts.
MOCK_CUSTOMERS ==
  << Customer(<<"mock", 1>>, "m1", "A", Num(6), Str(SOLAR), <<"1">>),
     Customer(<<"mock", 2>>, "m2", "B", Num(3), Str(STORAGE), <<"2">>) >>

\* What the operator may submit in the registration form.
Form(city, capacity, demandType, demandTypeOther) ==
  [city |-> city, capacity |-> capacity, demandType |-> demandType,
   demandTypeOther |-> demandTypeOther]

Forms ==
  { Form("A", NumStr(3), SOLAR, <<>>),
    Form("A", BadStr, OTHER_TYPE, <<"x">>),
    Form("D", NumStr(3), OTHER_TYPE, <<>>),
    Form("D", NumStr(6), SOLAR, <<"x">>) }

\* data.map(d => ({...})) of fetchCustomers.
MapRow(d) ==
  [id |-> d.id, company_name |-> d.company_name, province |-> d.province,
   city |-> d.city, capacity_mw |-> ToNumber(d.capacity_mw),
   demand_type |-> d.demand_type, industry |-> OrEmpty(d.industry),
   contact |-> OrEmpty(d.contact_name), phone |-> OrEmpty(d.contact_phone)]

mappedCustomers(data) == [i \in 1..Len(data) |-> MapRow(data[i])]

\* dbPayload of handleNewRegistration.
dbPayload(form) ==
  [company_name |-> "co", province |-> "P", city |-> form.city,
   capacity_mw |-> ParseFloatOrZero(form.capacity),
   demand_type |-> IF form.demandType = OTHER_TYPE
                      /\ form.demandTypeOther # <<>>
                   THEN OTHER_TYPE \o <<"-">> \o form.demandTypeOther
                   ELSE form.demandType,
   industry |-> <<>>, contact_name |-> <<>>, contact_phone |-> <<>>]

\* newCustomer of updateLocalState; n stands for Math.random().
newCustomer(payload, n) ==
  [id |-> <<"rnd", n>>, company_name |-> payload.company_name,
   province |-> payload.province, city |-> payload.city,
   capacity_mw |-> Num(payload.capacity_mw),
   demand_type |-> Str(payload.demand_type), industry |-> payload.industry,
   contact |-> payload.contact_name, phone |-> payload.contact_phone]

\* ------------------------------------------------------------ initial

\* The registration form left blank.
NoForm ==
  [city |-> "", capacity |-> EmptyStr, demandType |-> <<>>,
   demandTypeOther |-> <<>>]

Event(type, outcome, rows, form) ==
  [type |-> type, outcome |-> outcome, rows |-> rows, form |-> form]

NoEvent == Event("none", "none", <<>>, NoForm)

Init ==
  /\ isModalOpen = FALSE
  /\ loading = TRUE
  /\ customers = <<>>
  /\ regionStats = <<>>
  /\ chartData = <<>>
  /\ mounted = FALSE
  /\ listInFlight = 0
  /\ insertInFlight = {}
  /\ listCalls = 0
  /\ insertCalls = 0
  /\ submits = 0
  /\ insertOks = 0
  /\ nextId = 1
  /\ lastEvent = NoEvent
  /\ prevCustomers = <<>>
  /\ prevListCalls = 0
  /\ phone = <<>>
  /\ maskedPhone = <<>>

\* setCustomers(next) and the aggregation effect it triggers.
SetCustomers(next) ==
  /\ customers' = next
  /\ regionStats' = Aggregate(next).regionStats
  /\ chartData' = Aggregate(next).chartData

\* --------------------------------------------------- the application

\* The call of list() at the head of fetchCustomers.
StartFetch ==
  /\ loading' = TRUE
  /\ listInFlight' = listInFlight + 1
  /\ listCalls' = listCalls + 1

\* The mount effect: fetchCustomers() once.
Mount ==
  /\ ~mounted
  /\ mounted' = TRUE
  /\ StartFetch
  /\ prevCustomers' = customers
  /\ prevListCalls' = listCalls
  /\ lastEvent' = Event("mount", "none", <<>>, NoForm)
  /\ UNCHANGED <<isModalOpen, customers, regionStats, chartData,
                 insertInFlight, insertCalls, submits, insertOks, nextId,
                 phoneVars>>

\* Variant of fetchedCustomers: an empty result is shown as it is.
fetchedCustomersEmptyStays(outcome, data) ==
  IF outcome = "rows" THEN mappedCustomers(data)
  ELSE IF outcome = "empty" THEN <<>>
  ELSE MOCK_CUSTOMERS

\* What fetchCustomers hands to setCustomers once list() has ended.
fetchedCustomers(outcome, data) ==
  IF outcome \in {"error", "throw"} THEN MOCK_CUSTOMERS
  ELSE IF outcome = "rows" /\ Len(data) > 0 THEN mappedCustomers(data)
  ELSE MOCK_CUSTOMERS

\* The rest of fetchCustomers, after the await.
ListDone ==
  /\ listInFlight > 0
  /\ \E outcome \in ListOutcomes :
       \E data \in IF outcome = "rows" THEN RemoteResults ELSE {<<>>} :
         /\ SetCustomers(fetchedCustomers(outcome, data))
         /\ lastEvent' = Event("listDone", outcome, data, NoForm)
  /\ listInFlight' = listInFlight - 1
  /\ loading' = FALSE
  /\ prevCustomers' = customers
  /\ prevListCalls' = listCalls
  /\ UNCHANGED <<isModalOpen, mounted, insertInFlight, listCalls,
                 insertCalls, submits, insertOks, nextId, phoneVars>>

\* The header button: setIsModalOpen(true).
OpenModal ==
  /\ mounted
  /\ ~isModalOpen
  /\ isModalOpen' = TRUE
  /\ UNCHANGED <<loading, customers, regionStats, chartData, mounted,
                 listInFlight, insertInFlight, listCalls, insertCalls,
                 submits, insertOks, nextId, lastEvent, prevCustomers,
                 prevListCalls, phoneVars>>

\* onClose of the modal: setIsModalOpen(false).
CloseModal ==
  /\ isModalOpen
  /\ isModalOpen' = FALSE
  /\ UNCHANGED <<loading, customers, regionStats, chartData, mounted,
                 listInFlight, insertInFlight, listCalls, insertCalls,
                 submits, insertOks, nextId, lastEvent, prevCustomers,
                 prevListCalls, phoneVars>>

\* handleNewRegistration up to its await: one insert() of the payload.
Submit ==
  /\ isModalOpen
  /\ submits < MaxSubmits
  /\ \E form \in Forms :
       /\ insertInFlight' = insertInFlight \cup
            {[n |-> submits + 1, form |-> form, payload |-> dbPayload(form)]}
       /\ lastEvent' = Event("submit", "none", <<>>, form)
  /\ submits' = submits + 1
  /\ insertCalls' = insertCalls + 1
  /\ prevCustomers' = customers
  /\ prevListCalls' = listCalls
  /\ UNCHANGED <<isModalOpen, loading, customers, regionStats, chartData,
                 mounted, listInFlight, listCalls, insertOks, nextId,
                 phoneVars>>

\* updateLocalState(payload): the synthesized customer goes in front.
updateLocalState(payload) ==
  /\ SetCustomers(<<newCustomer(payload, nextId)>> \o customers)
  /\ nextId' = nextId + 1

\* Variant of InsertFailed: the failure path refetches too.
InsertFailedRefetches(req) ==
  /\ updateLocalState(req.payload)
  /\ StartFetch
  /\ UNCHANGED insertOks

\* The error branch and the catch of handleNewRegistration.
InsertFailed(req) ==
  /\ updateLocalState(req.payload)
  /\ UNCHANGED <<loading, listInFlight, listCalls, insertOks>>

\* The else branch of handleNewRegistration: await fetchCustomers().
InsertSucceeded ==
  /\ StartFetch
  /\ insertOks' = insertOks + 1
  /\ UNCHANGED <<customers, regionStats, chartData, nextId>>

\* The rest of handleNewRegistration, after the await of insert().
InsertDone ==
  /\ \E req \in insertInFlight :
       /\ insertInFlight' = insertInFlight \ {req}
       /\ \E outcome \in InsertOutcomes :
            /\ IF outcome = "ok" THEN InsertSucceeded ELSE InsertFailed(req)
            /\ lastEvent' = Event("insertDone", outcome, <<>>, req.form)
  /\ prevCustomers' = customers
  /\ prevListCalls' = listCalls
  /\ UNCHANGED <<isModalOpen, mounted, insertCalls, submits, phoneVars>>

Next == Mount \/ ListDone \/ OpenModal \/ CloseModal \/ Submit \/ InsertDone

Spec == Init /\ [][Next]_vars

\* --------------------------------------------------------- maskPhone

\* The groups of /(\d{3})\d{4}(\d{4})/.
LeadDigits == 3
MaskedDigits == 4
TailDigits == 4

Digits == {"0", "1", "2", "3", "4", "5", "6", "7", "8", "9"}

IsDigit(ch) == ch \in Digits

MatchLen == LeadDigits + MaskedDigits + TailDigits

\* Whether the pattern matches s at position i.
MatchAt(s, i) ==
  /\ i + MatchLen - 1 <= Len(s)
  /\ \A j \in i..(i + MatchLen - 1) : IsDigit(s[j])

RECURSIVE FirstMatch(_, _)
\* Where the leftmost match of the pattern in s at or after i starts;
\* 0 when there is none.
FirstMatch(s, i) ==
  IF i + MatchLen - 1 > Len(s) THEN 0
  ELSE IF MatchAt(s, i) THEN i
  ELSE FirstMatch(s, i + 1)

Stars == [j \in 1..MaskedDigits |-> "*"]

\* Variant of maskPhone: the pattern is anchored, /^...$/.
maskPhoneWholeOnly(p) ==
  IF Len(p) = MatchLen /\ MatchAt(p, 1)
  THEN SubSeq(p, 1, LeadDigits) \o Stars
         \o SubSeq(p, LeadDigits + MaskedDigits + 1, MatchLen)
  ELSE p

\* phone.replace(/(\d{3})\d{4}(\d{4})/, '$1****$2'), '' for no phone.
maskPhone(p) ==
  IF p = <<>> THEN <<>>
  ELSE LET i == FirstMatch(p, 1)
       IN  IF i = 0 THEN p
           ELSE SubSeq(p, 1, i - 1)
                  \o SubSeq(p, i, i + LeadDigits - 1)
                  \o Stars
                  \o SubSeq(p, i + LeadDigits + MaskedDigits,
                            i + MatchLen - 1)
                  \o SubSeq(p, i + MatchLen, Len(p))

\* The digit a phone text of the model carries at position i.
DigitAt(i) ==
  <<"1", "2", "3", "4", "5", "6", "7", "8", "9", "0">>[((i - 1) % 10) + 1]

\* The phone column renders a phone text one character longer.
RenderPhone ==
  /\ Len(phone) < MaxPhoneLen
  /\ \E ch \in {DigitAt(Len(phone) + 1), "+"} :
       /\ phone' = Append(phone, ch)
       /\ maskedPhone' = maskPhone(Append(phone, ch))
  /\ UNCHANGED <<appVars, customers, regionStats, chartData, lastEvent,
                 prevCustomers>>

NextMask == RenderPhone

SpecMask == Init /\ [][NextMask]_vars

\* --------------------------------- the aggregation effect on its own

\* The customer set grows by one record and the effect runs on it.
AggInput ==
  /\ Len(customers) < MaxLen
  /\ \E c \in AggCustomers : SetCustomers(Append(customers, c))
  /\ prevCustomers' = customers
  /\ lastEvent' = Event("aggregate", "none", <<>>, NoForm)
  /\ UNCHANGED <<appVars, phoneVars>>

NextAgg == AggInput

SpecAgg == Init /\ [][NextAgg]_vars

\* ------------------------------------------ claims on the aggregation

CitiesOf(custs) == {custs[i].city : i \in 1..Len(custs)}

OfCity(custs, city) ==
  LET InCity(c) == c.city = city IN SelectSeq(custs, InCity)

RECURSIVE FlSum(_)
\* The capacities of custs added left to right, as the effect adds them.
FlSum(custs) ==
  IF custs = <<>> THEN 0
  ELSE Fadd(FlSum(SubSeq(custs, 1, Len(custs) - 1)),
            Coerce(custs[Len(custs)].capacity_mw))

RECURSIVE SiteTotal(_)
SiteTotal(stats) ==
  IF stats = <<>> THEN 0
  ELSE stats[Len(stats)].site_count
         + SiteTotal(SubSeq(stats, 1, Len(stats) - 1))

\* C1 (as claimed): after the aggregation effect, every RegionStat has
\* pv_mw + storage_mw + ev_mw + other_mw = total_mw = the sum of the coerced
\* capacities of its city's customers, site_count = the number of customers
\* of its city, and the site_counts add up to the number of customers.
C1_SumsAgree ==
  /\ \A i \in 1..Len(regionStats) :
       LET r == regionStats[i]
           cs == OfCity(customers, r.city)
       IN  /\ CategorySum(r.pv_mw, r.storage_mw, r.ev_mw, r.other_mw)
                = r.total_mw
           /\ r.total_mw = FlSum(cs)
           /\ r.site_count = Len(cs)
  /\ SiteTotal(regionStats) = Len(customers)

\* The category the specification assigns: the first marker, in the order
\* solar, storage, EV-charging, that the demand type contains.
SpecCategory(cust) ==
  LET t == IF cust.demand_type.k = "str" THEN cust.demand_type.s ELSE <<>>
      hits == {j \in 1..3 :
                 Includes(t, <<SOLAR, STORAGE, EVCHARGE>>[j])}
  IN  IF hits = {} THEN "other"
      ELSE <<"pv", "storage", "ev">>[CHOOSE j \in hits :
                                       \A h \in hits : j <= h]

InCategory(custs, cat) ==
  LET Is(c) == SpecCategory(c) = cat IN SelectSeq(custs, Is)

\* C4: every customer's capacity is added to exactly one category sum of
\* its city, the one of the first marker (solar, then storage, then
\* EV-charging) its demand_type contains, other_mw when it contains none:
\* each category sum is the sum over exactly the customers of that category.
C4_FirstMatchCategory ==
  \A i \in 1..Len(regionStats) :
    LET r == regionStats[i]
        cs == OfCity(customers, r.city)
    IN  /\ r.pv_mw = FlSum(InCategory(cs, "pv"))
        /\ r.storage_mw = FlSum(InCategory(cs, "storage"))
        /\ r.ev_mw = FlSum(InCategory(cs, "ev"))
        /\ r.other_mw = FlSum(InCategory(cs, "other"))

\* A customer whose demand type holds both markers has been counted, and
\* its city shows its capacity under pv_mw and nothing under storage_mw.
C4_Witness ==
  /\ \E i \in 1..Len(customers) :
       /\ customers[i].demand_type = Str(T_BOTH)
       /\ Coerce(customers[i].capacity_mw) > 0
  /\ \E i \in 1..Len(regionStats) :
       /\ regionStats[i].city = "A"
       /\ regionStats[i].pv_mw > 0
       /\ regionStats[i].storage_mw = 0
       /\ regionStats[i].site_count = 1

\* C5: the RegionStat sequence is in descending order of total_mw.
C5_SortedDescending ==
  \A i \in 1..(Len(regionStats) - 1) :
    regionStats[i].total_mw >= regionStats[i + 1].total_mw

\* Three cities with three different totals, met in ascending order.
C5_Witness ==
  /\ Len(regionStats) = 3
  /\ regionStats[1].total_mw > regionStats[2].total_mw
  /\ regionStats[2].total_mw > regionStats[3].total_mw
  /\ customers[1].city = regionStats[3].city
  /\ customers[Len(customers)].city = regionStats[1].city

\* C6: regionStats and chartData each hold exactly one record per distinct
\* city of the customers and none for another city; for no customers both
\* are the empty sequence.
C6_OnePerCity ==
  /\ {regionStats[i].city : i \in 1..Len(regionStats)} = CitiesOf(customers)
  /\ {chartData[i].name : i \in 1..Len(chartData)} = CitiesOf(customers)
  /\ Len(regionStats) = Cardinality(CitiesOf(customers))
  /\ Len(chartData) = Cardinality(CitiesOf(customers))
  /\ customers = <<>> => regionStats = <<>> /\ chartData = <<>>

\* Three customers of two cities have been aggregated.
C6_Witness ==
  /\ Len(customers) = 3
  /\ Cardinality(CitiesOf(customers)) = 2
  /\ Len(regionStats) = 2
  /\ Len(chartData) = 2

Uncoercible(cust) == cust.capacity_mw.k \in {"nan", "undef", "str"}

Coercible(cust) == ~Uncoercible(cust)

Sums(e) == <<e.total_mw, e.pv_mw, e.storage_mw, e.ev_mw, e.other_mw>>

\* C7: a customer whose capacity_mw cannot be coerced to a number adds 0 to
\* every sum of its city (the sums are those of the input without such
\* customers) and still counts in site_count and still gets its city a
\* RegionStat.
C7_UncoercibleAddsZero ==
  LET good == SelectSeq(customers, Coercible)
      ref  == CityMapOf(good)
  IN  /\ \A i \in 1..Len(regionStats) :
           LET r == regionStats[i]
           IN  /\ r.site_count = Len(OfCity(customers, r.city))
               /\ \/ \E j \in 1..Len(ref) :
                       ref[j].city = r.city /\ Sums(ref[j]) = Sums(r)
                  \/ /\ r.city \notin CitiesOf(good)
                     /\ Sums(r) = <<0, 0, 0, 0, 0>>
      /\ \A i \in 1..Len(customers) :
           Uncoercible(customers[i]) =>
             \E j \in 1..Len(regionStats) :
               regionStats[j].city = customers[i].city

\* A city with an uncoercible and then a coercible customer: two sites, the
\* capacity of one.
C7_Witness ==
  /\ Len(customers) = 2
  /\ Uncoercible(customers[1])
  /\ Coercible(customers[2])
  /\ customers[2].city = customers[1].city
  /\ Len(regionStats) = 1
  /\ regionStats[1].site_count = 2
  /\ regionStats[1].total_mw = customers[2].capacity_mw.n
  /\ regionStats[1].total_mw > 0

\* ----------------------------------------------------- claim on masking

AllDigits(s) == \A j \in 1..Len(s) : IsDigit(s[j])

FetchFailed(outcome) == outcome \in {"error", "throw", "null", "empty"}

\* C2: when a list() call has ended with an error, a throw, or an empty or
\* null result, the Customer set is exactly MOCK_CUSTOMERS; when it has ended
\* with a non-empty result, the Customer set is the remote records, mapped,
\* in their order.
C2_FallbackToMock ==
  lastEvent.type = "listDone" =>
    IF FetchFailed(lastEvent.outcome)
    THEN customers = MOCK_CUSTOMERS
    ELSE /\ Len(customers) = Len(lastEvent.rows)
         /\ \A i \in 1..Len(customers) :
              /\ customers[i].id = lastEvent.rows[i].id
              /\ customers[i].city = lastEvent.rows[i].city
              /\ customers[i].demand_type = lastEvent.rows[i].demand_type
              /\ customers[i].capacity_mw
                   = ToNumber(lastEvent.rows[i].capacity_mw)

\* A list() call has returned the empty result after a locally synthesized
\* customer was in the set, and the set is the mock dataset.
C2_Witness ==
  /\ lastEvent.type = "listDone"
  /\ lastEvent.outcome = "empty"
  /\ prevCustomers # MOCK_CUSTOMERS
  /\ prevCustomers # <<>>
  /\ customers = MOCK_CUSTOMERS

StatOf(stats, city) ==
  IF \E i \in 1..Len(stats) : stats[i].city = city
  THEN LET i == CHOOSE j \in 1..Len(stats) : stats[j].city = city
       IN  stats[i]
  ELSE ZeroEntry(city)

\* C3 (as claimed): when insert() has failed, the Customer set is one new
\* customer, with the submitted city, capacity and demand type and a
\* generated identifier, followed by the previous set; no list() was
\* issued; and the RegionStat of its city has site_count one higher and
\* total_mw higher by its capacity than before.
C3_FailedInsertPrepends ==
  (lastEvent.type = "insertDone" /\ lastEvent.outcome # "ok") =>
    LET form   == lastEvent.form
        new    == customers[1]
        cap    == ParseFloatOrZero(form.capacity)
        before == StatOf(Aggregate(prevCustomers).regionStats, form.city)
        after  == StatOf(regionStats, form.city)
    IN  /\ Len(customers) = Len(prevCustomers) + 1
        /\ Tail(customers) = prevCustomers
        /\ new.city = form.city
        /\ new.capacity_mw = Num(cap)
        /\ Includes(new.demand_type.s, form.demandType)
        /\ new.id[1] = "rnd"
        /\ \A i \in 1..Len(prevCustomers) : prevCustomers[i].id # new.id
        /\ listCalls = prevListCalls
        /\ after.site_count = before.site_count + 1
        /\ after.total_mw = Fadd(before.total_mw, cap)

\* C9: list() is called once on mount and once after each insert() that
\* succeeded, and never otherwise; each submission issues one insert();
\* nothing is retried.
C9_CallCounts ==
  /\ listCalls = (IF mounted THEN 1 ELSE 0) + insertOks
  /\ insertCalls = submits
  /\ insertCalls = insertOks + (nextId - 1) + Cardinality(insertInFlight)
  /\ listInFlight <= listCalls

\* One insert() has succeeded and one has failed, and every call has ended.
C9_Witness ==
  /\ insertOks = 1
  /\ nextId = 2
  /\ listCalls = 2
  /\ listInFlight = 0
  /\ insertInFlight = {}

IsLocal(cust) == cust.id[1] = "rnd"

\* C10 (as claimed): a customer synthesized after a failed insert() stays in
\* the Customer set: no step removes it.
C10_LocalCustomerStays ==
  [][\A i \in 1..Len(customers) :
       IsLocal(customers[i]) =>
         \E j \in 1..Len(customers') : customers'[j] = customers[i]]_vars

====
